---- MODULE Spec2Model ----
(***************************************************************************)
(* Model of lib/core/replication.py: the Replication object (one sqlite    *)
(* connection and cursor), the Table handles it hands out, and the part of *)
(* the sqlite engine the module's SQL statements exercise.  tables is what  *)
(* the connection sees, committed what the database file holds, cache the  *)
(* statement texts the connection has prepared and keeps.                  *)
(*                                                                         *)
(* Encodings.  A Python value that may be None is a sequence of length 0   *)
(* (None) or 1 (the value).  A Python value bound as a parameter is the    *)
(* string of its repr: "1" is the integer 1, "'2'" the text '2'.  A column *)
(* entry is a record [name, type]; in a names-only (typeless) column list  *)
(* the type field is NoType.                                               *)
(***************************************************************************)
EXTENDS Integers, Sequences, FiniteSets, TLC

VARIABLES dbpath, connection, cursor, tables, committed, inTxn, cache, handle, last, bracket

vars == <<dbpath, connection, cursor, tables, committed, inTxn, cache, handle, last, bracket>>

\* ------------------------------------------------------------------ bounds

\* Most rows the database holds in the model, over all its tables.
MaxRows == 2

\* ------------------------------------------------------------ option values

None == <<>>

Some(x) == <<x>>

IsNone(o) == o = <<>>

Get(o) == o[1]

\* The element of a one-element set; Only({ e(x) : x \in {v} }) is e with x
\* bound to the value of v.
Only(S) == CHOOSE x \in S : TRUE

\* ------------------------------------------------------------------ inputs

\* Paths the engine can open, and one it cannot (a directory).
OpenablePaths == {"scan.sqlite"}

Paths == OpenablePaths \cup {"/tmp"}

Names == {"t", "u"}

NoType == ""

\* [("id", "INTEGER UNIQUE"), ("v", "TEXT")]
ColsTyped == << [name |-> "id", type |-> "INTEGER UNIQUE"], [name |-> "v", type |-> "TEXT"] >>

\* ["v"], for a typeless table
ColsTypeless == << [name |-> "v", type |-> NoType] >>

\* createTable(tblname, columns, typeless) calls: columns omitted, an empty
\* list, a typed list, and names-only lists of typeless tables.
CreateInputs ==
    { [tblname |-> "t", columns |-> None, typeless |-> FALSE],
      [tblname |-> "t", columns |-> Some(<<>>), typeless |-> FALSE],
      [tblname |-> "t", columns |-> Some(ColsTyped), typeless |-> FALSE],
      [tblname |-> "\"t\"", columns |-> Some(ColsTypeless), typeless |-> TRUE],
      [tblname |-> "u", columns |-> Some(ColsTypeless), typeless |-> TRUE] }

\* Table(parent, tblname, columns, create=False) calls.
DirectInputs ==
    { [tblname |-> "t", columns |-> None],
      [tblname |-> "u", columns |-> Some(ColsTypeless)] }

\* The integer 1 and the text '\x31' (the safe-encoded form of '1').
Values == {"1", "'\\x31'"}

\* values as given to insert: of every length from none to one more than the
\* widest column list.
ValueSeqs ==
    { <<>>, <<"1">>, <<"'\\x31'">>, <<"1", "'\\x31'">>,
      <<"1", "1", "'\\x31'">> }

Conditions == {"", "id=1"}

\* Statements and parameters a caller passes to Table.execute directly.
DirectSql == {"ROLLBACK", "COMMIT", "begin transaction", "INSERT INTO \"t\" VALUES (?)"}

DirectParameters == {None, Some(<<"1">>)}

\* The direct calls of Table.execute taken: every statement without
\* parameters, and with one parameter a statement that has a placeholder for
\* it and one that has none.
DirectCalls ==
    { [sql |-> sql, parameters |-> None] : sql \in DirectSql }
    \cup { [sql |-> sql, parameters |-> parameters] :
              sql \in {"ROLLBACK", "INSERT INTO \"t\" VALUES (?)"},
              parameters \in DirectParameters \ {None} }

\* ------------------------------------------------------ external collaborators

\* lib.core.common.unsafeSQLIdentificatorNaming: strips the identifier quotes.
unsafeSQLIdentificatorNaming(name) == IF name = "\"t\"" THEN "t" ELSE name

\* lib.utils.safe2bin.safechardecode on one value: \xNN becomes the character.
safechardecodeValue(v) == IF v = "'\\x31'" THEN "'1'" ELSE v

\* lib.utils.safe2bin.safechardecode on a list: element by element, in order.
safechardecode(values) == [i \in 1..Len(values) |-> safechardecodeValue(values[i])]

\* ------------------------------------------------------------------ helpers

RECURSIVE Join(_, _)
\* sep.join(parts)
Join(parts, sep) ==
    IF Len(parts) = 0 THEN ""
    ELSE IF Len(parts) = 1 THEN parts[1]
    ELSE parts[1] \o sep \o Join(Tail(parts), sep)

\* ['?'] * n
Placeholders(n) == [i \in 1..n |-> "?"]

\* ------------------------------------------------------------- sqlite engine

\* The engine's state as one value: the schema with its rows as the
\* connection sees it, whether a transaction is open on the connection, the
\* schema with its rows as last committed to the file, and the statement
\* texts in the connection's statement cache (it holds more texts than the
\* model has, so none is ever evicted).
Eng(tbls, txn, saved, stmts) ==
    [tables |-> tbls, inTxn |-> txn, committed |-> saved, cache |-> stmts]

\* Outside a transaction every statement commits what it did.
Autocommit(eng) == IF eng.inTxn THEN eng ELSE [eng EXCEPT !.committed = eng.tables]

\* sqlite3.connect(path): an exception name, or "" when the file opens.
Connect(path) == IF path \in OpenablePaths THEN "" ELSE "sqlite3.OperationalError"

\* Column definitions the engine's parser accepts in this model.
EngineSchemas == {ColsTyped, ColsTypeless}

EngineColumnText(c) ==
    IF c.type = NoType THEN "\"" \o c.name \o "\""
    ELSE "\"" \o c.name \o "\" " \o c.type

EngineCreateText(n, cols) ==
    "CREATE TABLE \"" \o n \o "\" ("
        \o Join([i \in 1..Len(cols) |-> EngineColumnText(cols[i])], ",") \o ")"

EngineDropText(n) == "DROP TABLE IF EXISTS \"" \o n \o "\""

EngineInsertText(n, k) ==
    "INSERT INTO \"" \o n \o "\" VALUES (" \o Join(Placeholders(k), ",") \o ")"

EngineSelectText(n) == "SELECT * FROM " \o n

\* Column affinity: INTEGER turns numeric text into an integer, TEXT turns a
\* number into text, a column without a type stores the value as bound.
Affinity(type, v) ==
    IF type = "INTEGER UNIQUE" THEN (IF v = "'1'" THEN "1" ELSE v)
    ELSE IF type = "TEXT" THEN (IF v = "1" THEN "'1'" ELSE v)
    ELSE v

StoredRow(cols, params) == [i \in 1..Len(cols) |-> Affinity(cols[i].type, params[i])]

\* A UNIQUE column of the new row repeats a value of a stored row.
ViolatesUnique(cols, rows, row) ==
    \E i \in 1..Len(cols), j \in 1..Len(rows) :
        cols[i].type = "INTEGER UNIQUE" /\ rows[j][i] = row[i]

EngineResult(exc, eng, rows) == [exc |-> exc, eng |-> eng, rows |-> rows]

\* The INSERT of one row of params into the table n, once prepared and bound.
EngineInsert(n, params, eng) ==
    Only({ IF ViolatesUnique(Get(t).cols, Get(t).rows, row)
           THEN EngineResult("sqlite3.IntegrityError", eng, None)
           ELSE EngineResult("",
                    [eng EXCEPT !.tables[n] =
                        Some([cols |-> Get(t).cols, rows |-> Append(Get(t).rows, row)])],
                    None) :
           t \in {eng.tables[n]}, row \in {StoredRow(Get(eng.tables[n]).cols, params)} })

\* The statements the engine's parser accepts in this model, each with what
\* it parsed to; any other text is a syntax error.
Statement(sql, kind, name, cols, k) ==
    [sql |-> sql, kind |-> kind, name |-> name, cols |-> cols, k |-> k]

Grammar ==
    { Statement("BEGIN TRANSACTION", "begin", "", <<>>, 0),
      Statement("begin transaction", "begin", "", <<>>, 0),
      Statement("END TRANSACTION", "end", "", <<>>, 0),
      Statement("COMMIT", "end", "", <<>>, 0),
      Statement("ROLLBACK", "rollback", "", <<>>, 0) }
    \cup { Statement(EngineDropText(n), "drop", n, <<>>, 0) : n \in Names }
    \cup { Statement(EngineCreateText(n, cols), "create", n, cols, 0) :
              n \in Names, cols \in EngineSchemas }
    \cup { Statement(EngineInsertText(n, k), "insert", n, <<>>, k) :
              n \in Names, k \in { Len(values) : values \in ValueSeqs } }
    \cup { Statement(EngineSelectText(n), "select", n, <<>>, 0) : n \in Names }

ParseTable == [text \in { g.sql : g \in Grammar } |-> CHOOSE g \in Grammar : g.sql = text]

Parse(sql) ==
    IF sql \in DOMAIN ParseTable THEN ParseTable[sql]
    ELSE Statement(sql, "error", "", <<>>, 0)

\* Preparing the statement g against the schema fails: a syntax error, a
\* table that is missing or already there, a row of another width.
PrepareFails(g, eng) ==
    \/ g.kind = "error"
    \/ /\ g.kind = "insert"
       /\ \/ g.k = 0
          \/ IsNone(eng.tables[g.name])
          \/ Len(Get(eng.tables[g.name]).cols) # g.k
    \/ g.kind = "create" /\ ~IsNone(eng.tables[g.name])
    \/ g.kind = "select" /\ IsNone(eng.tables[g.name])

\* Stepping the prepared and bound statement g.
Step(g, params, eng) ==
    IF g.kind = "insert" THEN EngineInsert(g.name, params, eng)
    ELSE IF g.kind = "begin" THEN
        IF eng.inTxn THEN EngineResult("sqlite3.OperationalError", eng, None)
        ELSE EngineResult("", [eng EXCEPT !.inTxn = TRUE], None)
    ELSE IF g.kind = "end" THEN
        IF eng.inTxn
        THEN EngineResult("", [eng EXCEPT !.inTxn = FALSE, !.committed = eng.tables], None)
        ELSE EngineResult("sqlite3.OperationalError", eng, None)
    ELSE IF g.kind = "rollback" THEN
        IF eng.inTxn
        THEN EngineResult("", [eng EXCEPT !.inTxn = FALSE, !.tables = eng.committed], None)
        ELSE EngineResult("sqlite3.OperationalError", eng, None)
    ELSE IF g.kind = "drop" THEN
        EngineResult("", [eng EXCEPT !.tables[g.name] = None], None)
    ELSE IF g.kind = "create" THEN
        EngineResult("", [eng EXCEPT !.tables[g.name] = Some([cols |-> g.cols, rows |-> <<>>])],
                     None)
    ELSE EngineResult("", eng, Some(Get(eng.tables[g.name]).rows))

\* What the parsed statement g does to the engine.  A text that is not in
\* the statement cache is prepared first, and is cached when that succeeds;
\* then the count of bound parameters is checked against the statement's
\* placeholders; then the statement is stepped, which prepares a cached
\* statement again when the schema has changed since.
Run(g, params, eng) ==
    IF g.sql \notin eng.cache /\ PrepareFails(g, eng)
    THEN EngineResult("sqlite3.OperationalError", eng, None)
    ELSE Only({ IF Len(params) # g.k
                THEN EngineResult("sqlite3.ProgrammingError", kept, None)
                ELSE IF PrepareFails(g, kept)
                THEN EngineResult("sqlite3.OperationalError", kept, None)
                ELSE Step(g, params, kept) :
                kept \in {[eng EXCEPT !.cache = @ \cup {g.sql}]} })

\* connection.close(): what a transaction left open did is discarded, and
\* the connection's prepared statements go with it.
Close(eng) == Eng(eng.committed, FALSE, eng.committed, {})

\* cursor.execute(sql, params): the exception raised ("" for none), the
\* engine's state afterwards and the result set the cursor then holds.
CursorExecute(sql, params, eng) ==
    Only({ EngineResult(r.exc, Autocommit(r.eng), r.rows) :
           r \in { Run(g, params, eng) : g \in {Parse(sql)} } })

\* ------------------------------------------------------- Replication.Table

\* The outcome of one call: what it raised ("ok" for a normal return), what it
\* returned, the engine afterwards, the SQL statements it passed to the cursor
\* and the result set the cursor holds.
Result(outcome, ret, eng, sql, rows) ==
    [outcome |-> outcome, ret |-> ret, eng |-> eng, sql |-> sql, rows |-> rows]

\* The except clause of Table.execute: the exception the caller sees for an
\* exception of the cursor.
ExecuteRaises(exc) ==
    IF exc = "sqlite3.OperationalError" THEN "SqlmapGenericException" ELSE exc

\* parameters or []
ParametersOrEmpty(parameters) == IF IsNone(parameters) THEN <<>> ELSE Get(parameters)

\* Table.execute that also rolls the open transaction back when the cursor
\* raises.
Table_execute_RollsBack(sql, parameters, eng) ==
    Only({ IF r.exc = "" THEN Result("ok", None, r.eng, <<sql>>, r.rows)
           ELSE Result(ExecuteRaises(r.exc), None, Close(r.eng), <<sql>>, None) :
           r \in {CursorExecute(sql, parameters, eng)} })

\* Table.execute(sql, parameters)
Table_execute(sql, parameters, eng) ==
    Only({ IF r.exc = "" THEN Result("ok", None, r.eng, <<sql>>, r.rows)
           ELSE Result(ExecuteRaises(r.exc), None, r.eng, <<sql>>, None) :
           r \in {CursorExecute(sql, parameters, eng)} })

\* f'DROP TABLE IF EXISTS "{self.name}"'
DropSql(name) == "DROP TABLE IF EXISTS \"" \o name \o "\""

\* The CREATE TABLE text of Table.__init__, typed or typeless.
CreateSql(name, columns, typeless) ==
    IF ~typeless
    THEN "CREATE TABLE \"" \o name \o "\" ("
            \o Join([i \in 1..Len(columns) |->
                        "\"" \o unsafeSQLIdentificatorNaming(columns[i].name) \o "\" "
                            \o columns[i].type], ",")
            \o ")"
    ELSE "CREATE TABLE \"" \o name \o "\" ("
            \o Join([i \in 1..Len(columns) |->
                        "\"" \o unsafeSQLIdentificatorNaming(columns[i].name) \o "\""], ",")
            \o ")"

\* The Table object: its sanitized name and its column list (None when omitted).
TableObject(name, columns) == [name |-> name, columns |-> columns]

\* The try block of Table.__init__: DROP, then CREATE; any exception in it
\* becomes SqlmapGenericException.
CreateAfterDrop(name, columns, typeless, drop) ==
    IF drop.outcome # "ok"
    THEN Result("SqlmapGenericException", None, drop.eng, drop.sql, None)
    ELSE IF IsNone(columns)
    THEN Result("SqlmapGenericException", None, drop.eng, drop.sql, None)
    ELSE Only({ IF create.outcome # "ok"
                THEN Result("SqlmapGenericException", None, create.eng,
                            drop.sql \o create.sql, None)
                ELSE Result("ok", None, create.eng, drop.sql \o create.sql, None) :
                create \in {Table_execute(CreateSql(name, Get(columns), typeless),
                                          <<>>, drop.eng)} })

\* CREATE TABLE IF NOT EXISTS in place of DROP and CREATE.
CreateStatements_IfNotExists(name, columns, typeless, eng) ==
    IF ~IsNone(eng.tables[name]) /\ ~IsNone(columns) /\ columns # Some(<<>>)
    THEN Result("ok", None, eng, <<CreateSql(name, Get(columns), typeless)>>, None)
    ELSE CreateAfterDrop(name, columns, typeless, Result("ok", None, eng, <<>>, None))

\* The column list validated before anything is dropped.
CreateStatements_ChecksFirst(name, columns, typeless, eng) ==
    IF IsNone(columns) \/ Len(Get(columns)) = 0
    THEN Result("SqlmapGenericException", None, eng, <<>>, None)
    ELSE Only({ CreateAfterDrop(name, columns, typeless, drop) :
                drop \in {Table_execute(DropSql(name), <<>>, eng)} })

CreateStatements(name, columns, typeless, eng) ==
    Only({ CreateAfterDrop(name, columns, typeless, drop) :
           drop \in {Table_execute(DropSql(name), <<>>, eng)} })

\* Table.__init__(parent, name, columns, create, typeless); ret is the object.
Table__init__(name, columns, create, typeless, eng) ==
    LET self == TableObject(unsafeSQLIdentificatorNaming(name), columns) IN
    IF create
    THEN Only({ Result(r.outcome, IF r.outcome = "ok" THEN Some(self) ELSE None,
                       r.eng, r.sql, None) :
                r \in {CreateStatements(self.name, columns, typeless, eng)} })
    ELSE Result("ok", Some(self), eng, <<>>, None)

InsertArityOk_AtLeast(values, columns) == Len(values) >= Len(columns)

InsertArityOk_AtMost(values, columns) == Len(values) =< Len(columns)

\* len(values) == len(self.columns)
InsertArityOk(values, columns) == Len(values) = Len(columns)

\* f'INSERT INTO "{self.name}" VALUES ({",".join(["?"] * len(values))})'
InsertSql(name, values) ==
    "INSERT INTO \"" \o name \o "\" VALUES (" \o Join(Placeholders(Len(values)), ",") \o ")"

\* The parameters insert binds.
InsertParameters(values) == safechardecode(values)

\* Table.insert(values)
Table_insert(self, values, eng) ==
    IF IsNone(self.columns) THEN Result("TypeError", None, eng, <<>>, None)
    ELSE IF InsertArityOk(values, Get(self.columns))
    THEN Table_execute(InsertSql(self.name, values), InsertParameters(values), eng)
    ELSE Result("SqlmapValueException", None, eng, <<>>, None)

BeginSql == "BEGIN TRANSACTION"

EndSql_Begin == "BEGIN TRANSACTION"

EndSql == "END TRANSACTION"

\* Table.beginTransaction()
Table_beginTransaction(eng) == Table_execute(BeginSql, <<>>, eng)

\* Table.endTransaction()
Table_endTransaction(eng) == Table_execute(EndSql, <<>>, eng)

SelectSql_Spaced(name, condition) ==
    IF condition # "" THEN "SELECT * FROM " \o name \o " WHERE " \o condition
    ELSE "SELECT * FROM " \o name

\* The SQL text select builds.
SelectSql(name, condition) ==
    IF condition # "" THEN "SELECT * FROM " \o name \o "WHERE " \o condition
    ELSE "SELECT * FROM " \o name

\* Table.select(condition): returns what Table.execute returns.
Table_select(self, condition, eng) == Table_execute(SelectSql(self.name, condition), <<>>, eng)

\* ------------------------------------------------------------- Replication

Replication__init__Generic(path) ==
    IF Connect(path) = "" THEN "ok" ELSE "SqlmapGenericException"

\* Replication.__init__(dbpath): the exception raised, "ok" for none.
Replication__init__(path) ==
    IF Connect(path) = "sqlite3.OperationalError" THEN "SqlmapConnectionException"
    ELSE IF Connect(path) = "" THEN "ok"
    ELSE Connect(path)

\* ------------------------------------------------------------------- state

TableOps ==
    {"createTable", "Table", "insert", "select", "beginTransaction", "endTransaction", "execute"}

\* The record of the last call: what was called with which arguments, how it
\* ended, for createTable how many rows its table held before (-1: no such
\* table), and for endTransaction how many rows were inserted since a
\* beginTransaction that only inserts of correct arity followed (-1: none).
NoCall ==
    [op |-> "", name |-> "", path |-> "", columns |-> None, typeless |-> FALSE,
     values |-> <<>>, parameters |-> None, condition |-> "", outcome |-> "", ret |-> None, sql |-> <<>>,
     rows |-> None, rowsBefore |-> -1, bracketRows |-> -1]

\* The rows of all tables together.
RowCount(tbls) ==
    LET count(n) == IF IsNone(tbls[n]) THEN 0 ELSE Len(Get(tbls[n]).rows)
    IN count("t") + count("u")

\* The part of the statement cache the state keeps: the texts whose being
\* cached can change what cursor.execute does.  These are the texts a caller
\* passes to execute with parameters of its own choosing and whose
\* preparation depends on the schema.  Every other text either reaches the
\* cursor with exactly as many parameters as it has placeholders or prepares
\* whatever the schema is, and then a cached statement behaves as a fresh one.
CacheKept(stmts) ==
    { sql \in stmts \cap DirectSql : Parse(sql).kind \in {"insert", "create", "select"} }

RowsBefore(n) == IF IsNone(tables[n]) THEN -1 ELSE Len(Get(tables[n]).rows)

Init ==
    /\ dbpath = None
    /\ connection = "unset"
    /\ cursor = "unset"
    /\ tables = [n \in Names |-> None]
    /\ committed = [n \in Names |-> None]
    /\ inTxn = FALSE
    /\ cache = {}
    /\ handle = None
    /\ last = NoCall
    /\ bracket = None

\* Replication(path), on a file never opened or closed again
Construct(path) ==
    /\ connection \in {"unset", "closed"}
    /\ \E outcome \in {Replication__init__(path)} :
       /\ dbpath' = Some(path)
       /\ connection' = IF outcome = "ok" THEN "open" ELSE "unset"
       /\ cursor' = IF outcome = "ok" THEN "open" ELSE "unset"
       /\ last' = [NoCall EXCEPT !.op = "__init__", !.path = path, !.outcome = outcome]
    /\ UNCHANGED <<tables, committed, inTxn, cache, handle, bracket>>

\* table = Replication.createTable(tblname, columns, typeless)
CreateTable(ci) ==
    /\ connection = "open"
    /\ \E r \in {Table__init__(ci.tblname, ci.columns, TRUE, ci.typeless,
                                Eng(tables, inTxn, committed, cache))},
          n \in {unsafeSQLIdentificatorNaming(ci.tblname)} :
          /\ tables' = r.eng.tables
          /\ committed' = r.eng.committed
          /\ inTxn' = r.eng.inTxn
          /\ cache' = CacheKept(r.eng.cache)
          /\ handle' = IF r.outcome = "ok" THEN r.ret ELSE handle
          /\ last' = [NoCall EXCEPT !.op = "createTable", !.name = n, !.columns = ci.columns,
                         !.typeless = ci.typeless, !.outcome = r.outcome, !.ret = r.ret,
                         !.sql = r.sql, !.rowsBefore = RowsBefore(n)]
    /\ bracket' = None
    /\ UNCHANGED <<dbpath, connection, cursor>>

\* table = Replication.Table(parent, name, columns, create=False)
ConstructTable(di) ==
    /\ connection = "open"
    /\ \E r \in {Table__init__(di.tblname, di.columns, FALSE, FALSE,
                                Eng(tables, inTxn, committed, cache))},
          n \in {unsafeSQLIdentificatorNaming(di.tblname)} :
          /\ tables' = r.eng.tables
          /\ committed' = r.eng.committed
          /\ inTxn' = r.eng.inTxn
          /\ cache' = CacheKept(r.eng.cache)
          /\ handle' = r.ret
          /\ last' = [NoCall EXCEPT !.op = "Table", !.name = n, !.columns = di.columns,
                         !.outcome = r.outcome, !.ret = r.ret, !.sql = r.sql]
    /\ bracket' = None
    /\ UNCHANGED <<dbpath, connection, cursor>>

\* table.execute(sql, parameters), called directly
Execute(sql, parameters) ==
    /\ connection = "open"
    /\ ~IsNone(handle)
    /\ \E r \in {Table_execute(sql, ParametersOrEmpty(parameters),
                                 Eng(tables, inTxn, committed, cache))} :
       /\ RowCount(r.eng.tables) <= MaxRows
       /\ tables' = r.eng.tables
       /\ committed' = r.eng.committed
       /\ inTxn' = r.eng.inTxn
       /\ cache' = CacheKept(r.eng.cache)
       /\ last' = [NoCall EXCEPT !.op = "execute", !.name = Get(handle).name,
                      !.parameters = parameters, !.outcome = r.outcome, !.ret = r.ret,
                      !.sql = r.sql, !.rows = r.rows]
    /\ bracket' = None
    /\ UNCHANGED <<dbpath, connection, cursor, handle>>

\* table.insert(values)
Insert(values) ==
    /\ connection = "open"
    /\ ~IsNone(handle)
    /\ \E r \in {Table_insert(Get(handle), values, Eng(tables, inTxn, committed, cache))} :
       /\ RowCount(r.eng.tables) <= MaxRows
       /\ tables' = r.eng.tables
       /\ committed' = r.eng.committed
       /\ inTxn' = r.eng.inTxn
       /\ cache' = CacheKept(r.eng.cache)
       /\ last' = [NoCall EXCEPT !.op = "insert", !.name = Get(handle).name,
                      !.values = values, !.outcome = r.outcome, !.ret = r.ret, !.sql = r.sql]
       /\ bracket' =
            IF IsNone(bracket) \/ IsNone(Get(handle).columns) THEN None
            ELSE IF Len(values) # Len(Get(Get(handle).columns)) THEN None
            ELSE IF r.outcome = "ok"
            THEN Some(Get(bracket) + 1)
            ELSE bracket
    /\ UNCHANGED <<dbpath, connection, cursor, handle>>

\* table.select(condition)
Select(condition) ==
    /\ connection = "open"
    /\ ~IsNone(handle)
    /\ \E r \in {Table_select(Get(handle), condition, Eng(tables, inTxn, committed, cache))} :
       /\ tables' = r.eng.tables
       /\ committed' = r.eng.committed
       /\ inTxn' = r.eng.inTxn
       /\ cache' = CacheKept(r.eng.cache)
       /\ last' = [NoCall EXCEPT !.op = "select", !.name = Get(handle).name,
                      !.condition = condition, !.outcome = r.outcome, !.ret = r.ret,
                      !.sql = r.sql, !.rows = r.rows]
    /\ bracket' = None
    /\ UNCHANGED <<dbpath, connection, cursor, handle>>

\* table.beginTransaction()
BeginTransaction ==
    /\ connection = "open"
    /\ ~IsNone(handle)
    /\ \E r \in {Table_beginTransaction(Eng(tables, inTxn, committed, cache))} :
       /\ tables' = r.eng.tables
       /\ committed' = r.eng.committed
       /\ inTxn' = r.eng.inTxn
       /\ cache' = CacheKept(r.eng.cache)
       /\ last' = [NoCall EXCEPT !.op = "beginTransaction", !.name = Get(handle).name,
                      !.outcome = r.outcome, !.ret = r.ret, !.sql = r.sql]
       /\ bracket' = IF r.outcome = "ok" THEN Some(0) ELSE None
    /\ UNCHANGED <<dbpath, connection, cursor, handle>>

\* table.endTransaction()
EndTransaction ==
    /\ connection = "open"
    /\ ~IsNone(handle)
    /\ \E r \in {Table_endTransaction(Eng(tables, inTxn, committed, cache))} :
       /\ tables' = r.eng.tables
       /\ committed' = r.eng.committed
       /\ inTxn' = r.eng.inTxn
       /\ cache' = CacheKept(r.eng.cache)
       /\ last' = [NoCall EXCEPT !.op = "endTransaction", !.name = Get(handle).name,
                      !.outcome = r.outcome, !.ret = r.ret, !.sql = r.sql,
                      !.bracketRows = IF IsNone(bracket) THEN -1 ELSE Get(bracket)]
    /\ bracket' = None
    /\ UNCHANGED <<dbpath, connection, cursor, handle>>

\* Replication.__del__ of a constructed object, run when the object and the
\* Table object that refers to it are discarded: closes cursor and connection.
Del ==
    /\ connection = "open"
    /\ cursor' = "closed"
    /\ connection' = "closed"
    /\ \E eng \in {Close(Eng(tables, inTxn, committed, cache))} :
       /\ tables' = eng.tables
       /\ committed' = eng.committed
       /\ inTxn' = eng.inTxn
       /\ cache' = CacheKept(eng.cache)
    /\ handle' = None
    /\ last' = [NoCall EXCEPT !.op = "__del__", !.outcome = "ok"]
    /\ bracket' = None
    /\ UNCHANGED dbpath

\* Replication.__del__ of an object whose construction failed: self.cursor
\* was never set.
DelFailed ==
    /\ connection = "unset"
    /\ ~IsNone(dbpath)
    /\ last' = [NoCall EXCEPT !.op = "__del__", !.outcome = "AttributeError"]
    /\ UNCHANGED <<dbpath, connection, cursor, tables, committed, inTxn, cache, handle, bracket>>

Next ==
    \/ \E path \in Paths : Construct(path)
    \/ \E ci \in CreateInputs : CreateTable(ci)
    \/ \E di \in DirectInputs : ConstructTable(di)
    \/ \E call \in DirectCalls : Execute(call.sql, call.parameters)
    \/ \E values \in ValueSeqs : Insert(values)
    \/ \E condition \in Conditions : Select(condition)
    \/ BeginTransaction
    \/ EndTransaction
    \/ Del
    \/ DelFailed

Spec == Init /\ [][Next]_vars

\* ------------------------------------------------------------------ claims

DomainKinds == {"SqlmapConnectionException", "SqlmapGenericException", "SqlmapValueException"}

\* The column list of the Table object the caller holds.
HandleColumns == Get(Get(handle).columns)

\* The Table object the caller holds was given a column list.
HandleDeclaresColumns == ~IsNone(handle) /\ ~IsNone(Get(handle).columns)

IsTypeless(columns) == \A i \in 1..Len(columns) : columns[i].type = NoType

\* The engine's table is the one the Table object declares, as after
\* createTable.
HandleMatchesEngine ==
    /\ HandleDeclaresColumns
    /\ ~IsNone(tables[Get(handle).name])
    /\ Get(tables[Get(handle).name]).cols = HandleColumns

\* The statements that end a transaction.
EndingSql == {"END TRANSACTION", "COMMIT", "ROLLBACK"}

RowsOf(tbls, n) == Get(tbls[n]).rows

\* C1: a select() with no condition that succeeds returns the engine's row
\* result to the caller: the rows of the table, each with its values in the
\* order the columns were declared.
C1_SelectReturnsRows ==
    (last.op = "select" /\ last.condition = "" /\ last.outcome = "ok")
        => (~IsNone(last.ret) /\ Get(last.ret) = RowsOf(tables, last.name))

\* C2: an insert whose value sequence is not as long as the declared column
\* list fails with SqlmapValueException, issues no SQL statement and leaves
\* every table and the transaction state as they were.
C2_WrongArityRejected ==
    [][ (last'.op = "insert" /\ HandleDeclaresColumns
                /\ Len(last'.values) # Len(HandleColumns))
            => /\ last'.outcome = "SqlmapValueException"
               /\ last'.sql = <<>>
               /\ tables' = tables
               /\ committed' = committed
               /\ inTxn' = inTxn ]_vars

C2_Witness ==
    /\ last.op = "insert"
    /\ last.outcome = "SqlmapValueException"
    /\ HandleDeclaresColumns
    /\ Len(last.values) > Len(HandleColumns)
    /\ inTxn
    /\ ~IsNone(tables[last.name])
    /\ Len(RowsOf(tables, last.name)) > 0

\* C3: a successful createTable(name, columns) leaves table name with exactly
\* the columns of that call and no rows, and every other table as it was.
C3_CreateLeavesFreshTable ==
    [][ (last'.op = "createTable" /\ last'.outcome = "ok")
            => /\ tables'[last'.name] = Some([cols |-> Get(last'.columns), rows |-> <<>>])
               /\ \A m \in Names \ {last'.name} : tables'[m] = tables[m] ]_vars

C3_Witness ==
    /\ last.op = "createTable"
    /\ last.outcome = "ok"
    /\ last.rowsBefore > 0
    /\ tables[last.name] = Some([cols |-> Get(last.columns), rows |-> <<>>])
    /\ \E m \in Names \ {last.name} : ~IsNone(tables[m]) /\ Len(RowsOf(tables, m)) > 0

\* C4: with no transaction open beginTransaction() succeeds and opens one;
\* each insert of correct arity that then succeeds appends its row to its
\* table and changes no other row; the endTransaction() that follows
\* succeeds, keeps every row, commits them and leaves no transaction open.
C4_BracketKeepsRows ==
    [][ /\ (last'.op = "beginTransaction" /\ ~inTxn)
            => (last'.outcome = "ok" /\ inTxn' /\ tables' = tables)
        /\ (last'.op = "insert" /\ ~IsNone(bracket) /\ ~IsNone(bracket')
                /\ last'.outcome = "ok")
            => /\ inTxn /\ inTxn'
               /\ ~IsNone(tables[last'.name])
               /\ tables' = [tables EXCEPT ![last'.name] =
                      Some([cols |-> Get(tables[last'.name]).cols,
                            rows |-> Append(RowsOf(tables, last'.name),
                                StoredRow(Get(tables[last'.name]).cols,
                                          safechardecode(last'.values)))])]
        /\ (last'.op = "endTransaction" /\ ~IsNone(bracket))
            => (last'.outcome = "ok" /\ ~inTxn' /\ tables' = tables
                    /\ committed' = tables) ]_vars

C4_Witness ==
    /\ last.op = "endTransaction"
    /\ last.outcome = "ok"
    /\ last.bracketRows >= 2
    /\ ~inTxn
    /\ committed = tables
    /\ \E n \in Names : ~IsNone(tables[n]) /\ Len(RowsOf(tables, n)) >= 2

\* C5: no operation of a Table ends with an exception of the engine: it
\* returns, or raises one of the three domain kinds.
C5_EngineExceptionsTranslated ==
    last.op \in TableOps => last.outcome \in DomainKinds \cup {"ok"}

\* C6: constructing Replication on a path the engine cannot open raises
\* SqlmapConnectionException, and the object has no connection and no cursor.
C6_UnopenablePathRaisesConnection ==
    (last.op = "__init__" /\ last.path \notin OpenablePaths)
        => /\ last.outcome = "SqlmapConnectionException"
           /\ connection = "unset"
           /\ cursor = "unset"

C6_Witness ==
    /\ last.op = "__init__"
    /\ last.path = "/tmp"
    /\ last.outcome = "SqlmapConnectionException"
    /\ dbpath = Some("/tmp")

\* C7: on a typeless table of n columns an insert of n values succeeds
\* whatever the type of each value and stores the row as bound, and an insert
\* of any other number of values fails with SqlmapValueException, as it
\* does on a typed table.
C7_TypelessInsert ==
    [][ (last'.op = "insert" /\ HandleMatchesEngine)
            => /\ (IsTypeless(HandleColumns)
                        /\ Len(last'.values) = Len(HandleColumns))
                    => /\ last'.outcome = "ok"
                       /\ RowsOf(tables', last'.name) =
                            Append(RowsOf(tables, last'.name), safechardecode(last'.values))
               /\ (Len(last'.values) # Len(HandleColumns))
                    => (last'.outcome = "SqlmapValueException" /\ tables' = tables) ]_vars

C7_Witness ==
    /\ last.op = "insert"
    /\ last.outcome = "ok"
    /\ HandleMatchesEngine
    /\ IsTypeless(HandleColumns)
    /\ RowsOf(tables, last.name) = << <<"1">>, <<"'1'">> >>

\* C8: the SQL text select passes to execute is "SELECT * FROM " + name +
\* "WHERE " + condition for a non-empty condition, with no space before
\* WHERE, and "SELECT * FROM " + name otherwise.
C8_SelectText ==
    last.op = "select"
        => last.sql = << IF last.condition # ""
                         THEN "SELECT * FROM " \o last.name \o "WHERE " \o last.condition
                         ELSE "SELECT * FROM " \o last.name >>

C8_Witness ==
    /\ last.op = "select"
    /\ last.name = "t"
    /\ last.condition = "id=1"
    /\ last.sql = <<"SELECT * FROM tWHERE id=1">>

\* C9, as stated: once beginTransaction() has succeeded, the transaction
\* stays open across every Table operation other than a successful
\* endTransaction() (taken here right after the beginTransaction() and the
\* inserts of correct arity that follow it).
C9_StaysOpenUntilEndTransaction ==
    [][ (~IsNone(bracket) /\ last'.op \in TableOps
            /\ ~(last'.op = "endTransaction" /\ last'.outcome = "ok"))
            => inTxn' ]_vars

\* C9, amended: an open transaction stays open across every step other than
\* a successful endTransaction(), a successful execute() of a statement that
\* ends a transaction, and the close of the connection by __del__; a
\* beginTransaction() inside it fails with SqlmapGenericException; and a
\* failing insert, select, beginTransaction or execute inside it leaves every
\* row, committed or not, where it was.
C9_TransactionStaysOpen ==
    [][ inTxn
            => /\ inTxn'
                  \/ (last'.op = "endTransaction" /\ last'.outcome = "ok")
                  \/ (last'.op = "execute" /\ last'.outcome = "ok"
                        /\ last'.sql[1] \in EndingSql)
                  \/ last'.op = "__del__"
               /\ (last'.op = "beginTransaction")
                    => (last'.outcome = "SqlmapGenericException" /\ tables' = tables)
               /\ (last'.op \in {"insert", "select", "beginTransaction", "execute"}
                        /\ last'.outcome # "ok")
                    => (tables' = tables /\ committed' = committed /\ inTxn') ]_vars

C9_Witness ==
    /\ inTxn
    /\ last.op = "beginTransaction"
    /\ last.outcome = "SqlmapGenericException"
    /\ \E n \in Names : ~IsNone(tables[n]) /\ Len(RowsOf(tables, n)) > 0
    /\ tables # committed

\* C10: a createTable that fails raises SqlmapGenericException after its
\* DROP TABLE IF EXISTS has run: the DROP is the first statement issued and
\* no table of that name exists afterwards, whatever it held before.
C10_FailedCreateHasDropped ==
    (last.op = "createTable" /\ last.outcome # "ok")
        => /\ last.outcome = "SqlmapGenericException"
           /\ Len(last.sql) >= 1
           /\ last.sql[1] = "DROP TABLE IF EXISTS \"" \o last.name \o "\""
           /\ IsNone(tables[last.name])

C10_Witness ==
    /\ last.op = "createTable"
    /\ last.outcome = "SqlmapGenericException"
    /\ last.rowsBefore > 0
    /\ IsNone(tables[last.name])

====
